---- MODULE Spec2Model ----
(***************************************************************************)
(* Model of tools.py of SWAP_analysis: cleanup_redox (the loader/cleaner   *)
(* of a data-logger file) and the date-window filter of plot_redox and     *)
(* plot_temp.  A table (pandas DataFrame) is a sequence of row records; a  *)
(* timestamp is a number of minutes; a sensor cell is a record that is     *)
(* text, a number or the missing-value marker NaN.                         *)
(***************************************************************************)
EXTENDS Integers, Sequences, FiniteSets

VARIABLES
    file_path,      \* the extension of the path given to cleanup_redox
    readable,       \* whether the pandas reader can parse the file
    lines,          \* the rows of the file, the first line included
    correction,     \* the correction parameter
    pc,             \* the step cleanup_redox is at
    err,            \* the exception that ended the call, "" when none
    bound,          \* whether the local name dataframe is bound
    dataframe,      \* the local dataframe
    columns,        \* dataframe.columns once the header row is promoted
    header,         \* the local header
    start_data,     \* the local start_data
    df_redox,       \* the redox table
    df_temp,        \* the temperature table
    start_date,     \* plot_*: start of the window
    end_date,       \* plot_*: end of the window
    df_redox_plot,  \* plot_redox: the rows it plots
    df_temp_plot    \* plot_temp: the rows it plots

vars == <<file_path, readable, lines, correction, pc, err, bound, dataframe,
          columns, header, start_data, df_redox, df_temp,
          start_date, end_date, df_redox_plot, df_temp_plot>>

callVars == <<file_path, readable, lines, correction>>
plotVars == <<start_date, end_date, df_redox_plot, df_temp_plot>>

----------------------------------------------------------------------------
(* Bounds of the model *)

MaxHour == 3
MaxData == 2
MaxRows == 3

(* Program constants *)

Hour == 60
DefaultCorrection == 200
NaT == -1

----------------------------------------------------------------------------
(* Cells *)

\* A cell of the first column: free text, or (txt = "date") a date-time string
\* of the form "YYYY-MM-DD hh:mm" on one fixed day.
TextStamp(s) == [txt |-> s, hh |-> 0, mm |-> 0]
DateStamp(h, m) == [txt |-> "date", hh |-> h, mm |-> m]

\* A sensor cell: text as read from the file, a float, or NaN.
Text(s) == [k |-> "text", s |-> s, v |-> 0]
Num(n) == [k |-> "num", s |-> "", v |-> n]
NaN == [k |-> "nan", s |-> "", v |-> 0]

IsMissing(c) == c.k = "nan"
IsNumber(c) == c.k = "num"

Row(ts, rec, redox, temp) == [ts |-> ts, rec |-> rec, redox |-> redox, temp |-> temp]

HeaderRow == Row(TextStamp("TIMESTAMP"), "RECORD",
                 Text("redox_raw_Avg(1)"), Text("temp_C_Avg(1)"))
UnitsRow(rec) == Row(TextStamp("TS"), rec, Text("mV"), Text("Deg C"))
FirstLine == Row(TextStamp("TOA5"), "CR1000X", Text("CPU"), Text("Table1"))

BadHeaderRow == Row(TextStamp("TIMESTAMP"), "RN",
                    Text("redox_raw_Avg(1)"), Text("temp_C_Avg(1)"))

----------------------------------------------------------------------------
(* Sequences *)

RECURSIVE SeqsUpTo(_, _)
\* every sequence over S of length 0..n
SeqsUpTo(S, n) ==
    IF n = 0 THEN {<<>>}
    ELSE LET shorter == SeqsUpTo(S, n - 1)
         IN  shorter \cup {Append(q, x) : q \in {r \in shorter : Len(r) = n - 1}, x \in S}

Min(S) == CHOOSE x \in S : \A y \in S : x <= y

----------------------------------------------------------------------------
(* The pandas operations cleanup_redox uses *)

\* A freshly read table: the rows under the default RangeIndex 0..n-1.
Frame(rows) ==
    [k \in 1..Len(rows) |->
        [i |-> k - 1, ts |-> rows[k].ts, rec |-> rows[k].rec,
         redox |-> rows[k].redox, temp |-> rows[k].temp]]

\* pd.read_excel(file_path, sheet_name = 0): the first row becomes the column
\* labels, the other rows are the table (a sheet whose cells are stored as text).
ReadExcel(ls) == Frame(Tail(ls))

\* pd.read_csv(file_path, skiprows = [0], header = None): the first line is
\* skipped, the other lines are the table.
ReadCsv(ls) == Frame(Tail(ls))

IsSpreadsheet(path) == path \in {"xlsx", "xls"}

\* dataframe[dataframe.iloc[:,0] == "TIMESTAMP"].index
HeaderIndex(df) == {df[k].i : k \in {j \in 1..Len(df) : df[j].ts.txt = "TIMESTAMP"}}

\* dataframe.iloc[header], as the new column labels
HeaderLabels(df, h) ==
    LET r == df[h + 1]
    IN  [ts |-> r.ts.txt, rec |-> r.rec, redox |-> r.redox.s, temp |-> r.temp.s]

HasColumn(cols, label) == \E f \in DOMAIN cols : cols[f] = label

\* StartIndex falling back on the first row when no row holds "0"
StartIndexOrFirst(df) ==
    LET found == {df[k].i : k \in {j \in 1..Len(df) : df[j].rec = "0"}}
    IN  IF found = {} /\ Len(df) > 0 THEN {df[1].i} ELSE found

\* dataframe[dataframe.loc[:,"RECORD"] == "0"].index
StartIndex(df) == {df[k].i : k \in {j \in 1..Len(df) : df[j].rec = "0"}}

\* dataframe.drop(range(0, start_data))
DropRows(df, n) == SelectSeq(df, LAMBDA r : r.i >= n)

\* pd.to_datetime on one cell: a date string gives its time, an empty cell
\* gives NaT, any other text raises.
Parsable(c) == c.txt \in {"date", ""}
ToDatetime(c) == IF c.txt = "date" THEN c.hh * Hour + c.mm ELSE NaT

\* the float a text parses to, NaN when it parses to none
ParseNumber(s) ==
    CASE s = "0" -> Num(0)
      [] s = "5" -> Num(5)
      [] s = "7" -> Num(7)
      [] s = "-3" -> Num(0 - 3)
      [] OTHER -> NaN

\* pd.to_numeric(errors='ignore'): a text that parses to no number is kept
ToNumericIgnore(c) ==
    IF c.k = "text" /\ ParseNumber(c.s) # NaN THEN ParseNumber(c.s) ELSE c

\* pd.to_numeric(errors='coerce') on one cell
ToNumeric(c) == IF c.k = "text" THEN ParseNumber(c.s) ELSE c

\* cell + correction
Plus(c, n) == IF c.k = "num" THEN Num(c.v + n) ELSE c

\* the correction added at line 71 and again at line 75
RedoxValueTwice(c, corr) == Plus(ToNumeric(Plus(ToNumeric(c), corr)), corr)

\* the redox cell cleanup_redox computes from a source cell (lines 71 and 75)
RedoxValue(c, corr) == ToNumeric(Plus(ToNumeric(c), corr))

\* the temperature cell cleanup_redox computes from a source cell (lines 72 and
\* 77); the correction takes no part in it
TempValue(c, corr) == ToNumeric(ToNumeric(c))

\* a range that always ends at last, whole hours after first or not
DateRangeToLast(first, last) ==
    IF last < first THEN <<>>
    ELSE LET n == (last - first) \div Hour + 1
         IN  IF (last - first) % Hour = 0
             THEN [k \in 1..n |-> first + (k - 1) * Hour]
             ELSE [k \in 1..(n + 1) |-> IF k <= n THEN first + (k - 1) * Hour ELSE last]

\* pd.date_range(first, last, freq = "h")
DateRange(first, last) ==
    IF last < first THEN <<>>
    ELSE [k \in 1..((last - first) \div Hour + 1) |-> first + (k - 1) * Hour]

Index(df) == [k \in 1..Len(df) |-> df[k].Time]

HasDuplicates(idx) == \E a, b \in 1..Len(idx) : a # b /\ idx[a] = idx[b]

\* a reindex that drops the rows holding no number
ReindexDropMissing(df, rng) ==
    SelectSeq([k \in 1..Len(rng) |->
                  IF \E j \in 1..Len(df) : df[j].Time = rng[k]
                  THEN LET j == CHOOSE j \in 1..Len(df) : df[j].Time = rng[k]
                       IN  [Time |-> rng[k], v |-> df[j].v]
                  ELSE [Time |-> rng[k], v |-> NaN]],
              LAMBDA r : r.v.k # "nan")

\* df.reindex(rng, fill_value = np.nan), for a df whose index has no duplicates
Reindex(df, rng) ==
    [k \in 1..Len(rng) |->
        IF \E j \in 1..Len(df) : df[j].Time = rng[k]
        THEN LET j == CHOOSE j \in 1..Len(df) : df[j].Time = rng[k]
             IN  [Time |-> rng[k], v |-> df[j].v]
        ELSE [Time |-> rng[k], v |-> NaN]]

\* a window closed at both ends
WindowClosed(df, start, end) ==
    SelectSeq(df, LAMBDA r : r.Time >= ToDatetime(start) /\ r.Time <= ToDatetime(end))

\* (df.index > start_date) & (df.index <= end_date), then df[mask]
Window(df, start, end) ==
    SelectSeq(df, LAMBDA r : r.Time > ToDatetime(start) /\ r.Time <= ToDatetime(end))

----------------------------------------------------------------------------
(* The inputs *)

Minutes == {0, 30}
Stamps == {DateStamp(h, m) : h \in 0..MaxHour, m \in Minutes}
SensorCells == {<<Text("5"), Text("7")>>, <<Text("abc"), Text("7")>>, <<Text("-3"), Text("NAN")>>}
Corrections == {0, DefaultCorrection}

\* the rows a logger writes: a time, a record number, one redox and one
\* temperature reading; and a row whose time cell is empty
DataRows ==
    {Row(t, rec, c[1], c[2]) : t \in Stamps, rec \in {"0", "1"}, c \in SensorCells}
    \cup {Row(TextStamp(""), "1", Text("5"), Text("7"))}

\* the rows that decide the shape of a file: header rows, preamble and units
\* rows (with any text, "0" included, under RECORD), and two data rows
ShapeRows ==
    {HeaderRow, BadHeaderRow, UnitsRow("RN"), UnitsRow("0"),
     Row(DateStamp(0, 0), "0", Text("5"), Text("7")),
     Row(DateStamp(1, 0), "1", Text("-3"), Text("0"))}

\* files of any shape, read as a spreadsheet or as delimited text
ShapeFiles == {<<FirstLine>> \o q : q \in SeqsUpTo(ShapeRows, MaxRows)}

\* well-shaped files with any data rows
DataFiles == {<<FirstLine, HeaderRow>> \o q : q \in SeqsUpTo(DataRows, MaxData)}

NoColumns == [ts |-> "", rec |-> "", redox |-> "", temp |-> ""]

Locals ==
    /\ pc = "read"
    /\ err = ""
    /\ bound = FALSE
    /\ dataframe = <<>>
    /\ columns = NoColumns
    /\ header = -1
    /\ start_data = -1
    /\ df_redox = <<>>
    /\ df_temp = <<>>

NoPlot ==
    /\ start_date = DateStamp(0, 0)
    /\ end_date = DateStamp(0, 0)
    /\ df_redox_plot = <<>>
    /\ df_temp_plot = <<>>

\* cleanup_redox(file_path, correction) is called
Init ==
    /\ \/ /\ file_path \in {"xlsx", "dat"}
          /\ \/ readable = TRUE /\ lines \in ShapeFiles
             \/ readable = FALSE /\ lines = <<>>
          /\ correction = DefaultCorrection
       \/ /\ file_path = "dat"
          /\ readable = TRUE
          /\ lines \in DataFiles
          /\ correction \in Corrections
    /\ Locals
    /\ NoPlot

----------------------------------------------------------------------------
(* cleanup_redox, step by step *)

Raise(e) ==
    /\ pc' = "error"
    /\ err' = e

\* a read that raises the IOError it builds
ReadFileRaising ==
    /\ pc = "read"
    /\ IF readable
       THEN /\ dataframe' = IF IsSpreadsheet(file_path) THEN ReadExcel(lines) ELSE ReadCsv(lines)
            /\ bound' = TRUE
            /\ pc' = "header"
            /\ err' = err
       ELSE /\ Raise(IF IsSpreadsheet(file_path) THEN "read_excel" ELSE "IOError")
            /\ UNCHANGED <<dataframe, bound>>
    /\ UNCHANGED <<callVars, plotVars, columns, header, start_data, df_redox, df_temp>>

\* lines 38-44: read the file.  read_excel raises on a file it cannot parse;
\* a failure of read_csv is caught, the IOError is built and not raised, and
\* dataframe stays unbound.
ReadFile ==
    /\ pc = "read"
    /\ IF IsSpreadsheet(file_path)
       THEN IF readable
            THEN /\ dataframe' = ReadExcel(lines)
                 /\ bound' = TRUE
                 /\ pc' = "header"
                 /\ err' = err
            ELSE /\ Raise("read_excel")
                 /\ UNCHANGED <<dataframe, bound>>
       ELSE IF readable
            THEN /\ dataframe' = ReadCsv(lines)
                 /\ bound' = TRUE
                 /\ pc' = "header"
                 /\ err' = err
            ELSE /\ pc' = "header"
                 /\ UNCHANGED <<dataframe, bound, err>>
    /\ UNCHANGED <<callVars, plotVars, columns, header, start_data, df_redox, df_temp>>

\* lines 48-49: the first row whose first cell is TIMESTAMP becomes the header
LocateHeader ==
    /\ pc = "header"
    /\ IF ~bound
       THEN /\ Raise("UnboundLocalError")
            /\ UNCHANGED <<header, columns>>
       ELSE IF HeaderIndex(dataframe) = {}
       THEN /\ Raise("IndexError:header")
            /\ UNCHANGED <<header, columns>>
       ELSE /\ header' = Min(HeaderIndex(dataframe))
            /\ columns' = HeaderLabels(dataframe, header')
            /\ pc' = "start_data"
            /\ err' = err
    /\ UNCHANGED <<callVars, plotVars, bound, dataframe, start_data, df_redox, df_temp>>

\* lines 50-51: the rows before the first row with "0" under RECORD are dropped
DropPreamble ==
    /\ pc = "start_data"
    /\ IF ~HasColumn(columns, "RECORD")
       THEN /\ Raise("KeyError:RECORD")
            /\ UNCHANGED <<start_data, dataframe>>
       ELSE IF StartIndex(dataframe) = {}
       THEN /\ Raise("IndexError:start_data")
            /\ UNCHANGED <<start_data, dataframe>>
       ELSE /\ start_data' = Min(StartIndex(dataframe))
            /\ dataframe' = DropRows(dataframe, start_data')
            /\ pc' = "time"
            /\ err' = err
    /\ UNCHANGED <<callVars, plotVars, bound, columns, header, df_redox, df_temp>>

\* lines 54-57: the Time column
ParseTime ==
    /\ pc = "time"
    /\ IF \E k \in 1..Len(dataframe) : ~Parsable(dataframe[k].ts)
       THEN /\ Raise("to_datetime")
            /\ UNCHANGED dataframe
       ELSE /\ dataframe' =
                [k \in 1..Len(dataframe) |->
                    [i |-> dataframe[k].i, Time |-> ToDatetime(dataframe[k].ts),
                     redox |-> dataframe[k].redox, temp |-> dataframe[k].temp]]
            /\ pc' = "split"
            /\ err' = err
    /\ UNCHANGED <<callVars, plotVars, bound, columns, header, start_data, df_redox, df_temp>>

\* lines 60-77: the two tables, coerced to numbers, redox corrected, Time the index
SplitCoerce ==
    /\ pc = "split"
    /\ df_redox' = [k \in 1..Len(dataframe) |->
                      [Time |-> dataframe[k].Time,
                       v |-> RedoxValue(dataframe[k].redox, correction)]]
    /\ df_temp' = [k \in 1..Len(dataframe) |->
                      [Time |-> dataframe[k].Time,
                       v |-> TempValue(dataframe[k].temp, correction)]]
    /\ pc' = "regularize"
    /\ UNCHANGED <<callVars, plotVars, err, bound, dataframe, columns, header, start_data>>

RangeOf(df) == DateRange(df[1].Time, df[Len(df)].Time)

\* lines 79-85: both tables are reindexed onto an hourly range and returned
Regularize ==
    /\ pc = "regularize"
    /\ IF \/ df_redox[1].Time = NaT \/ df_redox[Len(df_redox)].Time = NaT
          \/ df_temp[1].Time = NaT \/ df_temp[Len(df_temp)].Time = NaT
       THEN /\ Raise("date_range")
            /\ UNCHANGED <<df_redox, df_temp>>
       ELSE IF \/ HasDuplicates(Index(df_redox)) /\ Index(df_redox) # RangeOf(df_redox)
               \/ HasDuplicates(Index(df_temp)) /\ Index(df_temp) # RangeOf(df_temp)
       THEN /\ Raise("reindex")
            /\ UNCHANGED <<df_redox, df_temp>>
       ELSE /\ df_redox' = Reindex(df_redox, RangeOf(df_redox))
            /\ df_temp' = Reindex(df_temp, RangeOf(df_temp))
            /\ pc' = "returned"
            /\ err' = err
    /\ UNCHANGED <<callVars, plotVars, bound, dataframe, columns, header, start_data>>

Next ==
    \/ ReadFile
    \/ LocateHeader
    \/ DropPreamble
    \/ ParseTime
    \/ SplitCoerce
    \/ Regularize

Spec == Init /\ [][Next]_vars

\* cleanup_redox is straight-line, single-threaded code: a call that has a
\* next step takes it
FairSpec == Init /\ [][Next]_vars /\ WF_vars(Next)

----------------------------------------------------------------------------
(* plot_redox and plot_temp: the date window *)

\* the tables a caller may pass: any index, in any order
PlotTables ==
    {[k \in 1..Len(q) |-> [Time |-> ToDatetime(q[k]), v |-> Num(k)]] :
        q \in SeqsUpTo(Stamps, MaxData)}

PlotInit ==
    /\ file_path = "dat"
    /\ readable = TRUE
    /\ lines = <<>>
    /\ correction = DefaultCorrection
    /\ err = ""
    /\ bound = FALSE
    /\ dataframe = <<>>
    /\ columns = NoColumns
    /\ header = -1
    /\ start_data = -1
    /\ df_redox \in PlotTables
    /\ df_temp = [k \in 1..Len(df_redox) |-> [Time |-> df_redox[k].Time, v |-> NaN]]
    /\ pc = "plot_redox"
    /\ NoPlot

\* plot_redox(df_redox, redox_nodes, start_date, end_date), lines 120-121
PlotRedox ==
    /\ pc = "plot_redox"
    /\ \E s \in Stamps, e \in Stamps :
        /\ start_date' = s
        /\ end_date' = e
        /\ df_redox_plot' = Window(df_redox, s, e)
    /\ pc' = "plot_temp"
    /\ UNCHANGED <<callVars, err, bound, dataframe, columns, header, start_data,
                   df_redox, df_temp, df_temp_plot>>

\* plot_temp(df_temp, temp_nodes, start_date, end_date), lines 194-195
PlotTemp ==
    /\ pc = "plot_temp"
    /\ df_temp_plot' = Window(df_temp, start_date, end_date)
    /\ pc' = "done"
    /\ UNCHANGED <<callVars, err, bound, dataframe, columns, header, start_data,
                   df_redox, df_temp, start_date, end_date, df_redox_plot>>

PlotNext ==
    \/ PlotRedox
    \/ PlotTemp

PlotSpec == PlotInit /\ [][PlotNext]_vars

----------------------------------------------------------------------------
(* The properties *)

\* the table as parsed from the file, before any row is dropped
Parsed == Frame(Tail(lines))

Hourly(df) == \A k \in 1..(Len(df) - 1) : df[k + 1].Time = df[k].Time + Hour
Increasing(df) == \A a, b \in 1..Len(df) : a < b => df[a].Time < df[b].Time

\* the kept rows are not an hourly increasing series
Irregular ==
    \E k \in 1..(Len(dataframe) - 1) : dataframe[k + 1].Time # dataframe[k].Time + Hour

\* C1: when cleanup_redox returns, the index of each returned table is strictly
\* increasing, without duplicates, and consecutive entries are 1 hour apart,
\* whatever the order and spacing of the source timestamps.
C1_HourlyIndex ==
    pc = "returned" =>
        /\ Hourly(df_redox) /\ Increasing(df_redox)
        /\ Hourly(df_temp) /\ Increasing(df_temp)

\* C1 witness: a call on irregular source timestamps returned a table of
\* several rows.
C1_Witness ==
    /\ pc = "returned"
    /\ Irregular
    /\ Len(df_redox) >= 2
    /\ \E k \in 1..Len(dataframe) : (dataframe[k].Time - dataframe[1].Time) % Hour # 0

KeptTimes == {dataframe[k].Time : k \in 1..Len(dataframe)}

Spans(df) ==
    /\ Len(df) > 0
    /\ df[1].Time = Min(KeptTimes)
    /\ \A t \in KeptTimes : t <= df[Len(df)].Time
    /\ df[Len(df)].Time \in KeptTimes

\* C2: when cleanup_redox returns, the index of each returned table starts at
\* the earliest timestamp of the source data rows and ends at the latest one,
\* also when the rows are out of order or the last timestamp is not a whole
\* number of hours after the first.
C2_SpansFirstToLast ==
    pc = "returned" => Spans(df_redox) /\ Spans(df_temp)

\* the source cell parsed as the claims describe it
Parse(c) == ParseNumber(c.s)
Corrected(c, corr) == IF Parse(c) = NaN THEN NaN ELSE Num(Parse(c).v + corr)

\* C3: reindexing loses and alters no measurement: every kept source row is
\* found, with its values, in the output row carrying its timestamp, and an
\* output row whose timestamp no source row has holds the missing-value marker.
C3_NoMeasurementLost ==
    pc = "returned" =>
        /\ \A k \in 1..Len(dataframe) :
              /\ \E j \in 1..Len(df_redox) :
                    /\ df_redox[j].Time = dataframe[k].Time
                    /\ df_redox[j].v = Corrected(dataframe[k].redox, correction)
              /\ \E j \in 1..Len(df_temp) :
                    /\ df_temp[j].Time = dataframe[k].Time
                    /\ df_temp[j].v = Parse(dataframe[k].temp)
        /\ \A j \in 1..Len(df_redox) :
              df_redox[j].Time \notin KeptTimes => IsMissing(df_redox[j].v)
        /\ \A j \in 1..Len(df_temp) :
              df_temp[j].Time \notin KeptTimes => IsMissing(df_temp[j].v)

Unparsable(c) == c.k = "text" /\ c.s \notin {"0", "5", "7", "-3"}

\* C4: a sensor cell that parses to no number never makes the call fail: it
\* becomes the missing-value marker, and every cell of both tables is a number
\* or the missing-value marker.
C4_CoercionNeverFails ==
    /\ pc \in {"regularize", "returned"} =>
          /\ \A j \in 1..Len(df_redox) : IsNumber(df_redox[j].v) \/ IsMissing(df_redox[j].v)
          /\ \A j \in 1..Len(df_temp) : IsNumber(df_temp[j].v) \/ IsMissing(df_temp[j].v)
    /\ pc = "regularize" =>
          /\ Len(df_redox) = Len(dataframe) /\ Len(df_temp) = Len(dataframe)
          /\ \A k \in 1..Len(dataframe) :
                /\ Unparsable(dataframe[k].redox) => IsMissing(df_redox[k].v)
                /\ Unparsable(dataframe[k].temp) => IsMissing(df_temp[k].v)
    /\ pc = "error" =>
          err \in {"read_excel", "UnboundLocalError", "IndexError:header", "KeyError:RECORD",
                   "IndexError:start_data", "to_datetime", "date_range", "reindex"}

\* C4 witness: a call whose kept rows hold an unparsable redox cell and an
\* unparsable temperature cell returned, with the marker in their place.
C4_Witness ==
    /\ pc = "returned"
    /\ \E k \in 1..Len(dataframe) : Unparsable(dataframe[k].redox)
    /\ \E k \in 1..Len(dataframe) : Unparsable(dataframe[k].temp)
    /\ \E j \in 1..Len(df_redox) : IsMissing(df_redox[j].v) /\ df_redox[j].Time \in KeptTimes
    /\ \E j \in 1..Len(df_temp) : IsMissing(df_temp[j].v) /\ df_temp[j].Time \in KeptTimes

NoHeaderRow == \A k \in 1..Len(Parsed) : Parsed[k].ts.txt # "TIMESTAMP"
NoZeroRow == \A k \in 1..Len(Parsed) : Parsed[k].rec # "0"

\* C5: a parsed source with no row whose first cell is TIMESTAMP, or with no
\* row holding "0" under RECORD, ends the call with an error at the lookup
\* step; no pair of tables is returned.
C5_MissingRowsFail ==
    (bound /\ (NoHeaderRow \/ NoZeroRow)) =>
        /\ pc \in {"header", "start_data", "error"}
        /\ df_redox = <<>> /\ df_temp = <<>>
        /\ pc = "error" =>
              err \in {"IndexError:header", "KeyError:RECORD", "IndexError:start_data"}

\* C5 witness: a source with a header row and rows below it, none holding "0"
\* under RECORD, ended in the lookup error.
C5_Witness ==
    /\ bound
    /\ ~NoHeaderRow
    /\ NoZeroRow
    /\ Len(Parsed) >= 2
    /\ pc = "error"
    /\ err = "IndexError:start_data"

\* C6: the correction is added exactly once to every non-missing redox value
\* and to no temperature value; missing cells stay missing.
C6_CorrectionOnce ==
    /\ pc = "regularize" =>
          \A k \in 1..Len(dataframe) :
              /\ df_redox[k].v = Corrected(dataframe[k].redox, correction)
              /\ df_temp[k].v = Parse(dataframe[k].temp)
    /\ pc = "returned" =>
          \A k \in 1..Len(dataframe) :
              /\ \A j \in 1..Len(df_redox) :
                    df_redox[j].Time = dataframe[k].Time =>
                        df_redox[j].v = Corrected(dataframe[k].redox, correction)
              /\ \A j \in 1..Len(df_temp) :
                    df_temp[j].Time = dataframe[k].Time =>
                        df_temp[j].v = Parse(dataframe[k].temp)

\* C6 witness: a call with a non-zero correction returned a corrected redox
\* value, a missing redox value and an uncorrected temperature.
C6_Witness ==
    /\ pc = "returned"
    /\ correction = DefaultCorrection
    /\ \E j \in 1..Len(df_redox) : df_redox[j].v = Num(5 + DefaultCorrection)
    /\ \E j \in 1..Len(df_redox) : IsMissing(df_redox[j].v) /\ df_redox[j].Time \in KeptTimes
    /\ \E j \in 1..Len(df_temp) : df_temp[j].v = Num(7)

KeptLabels == {dataframe[k].i : k \in 1..Len(dataframe)}

\* C7: the rows kept as data are the rows from the first row holding "0" under
\* RECORD onward, and every row before it, the promoted header row included,
\* is dropped, whatever the preamble rows hold, "0" in the RECORD position of a
\* row above the header included.
C7_PreambleAndHeaderDropped ==
    pc \in {"time", "split", "regularize", "returned"} =>
        /\ KeptLabels = {i \in 0..(Len(Parsed) - 1) : i >= Min(StartIndex(Parsed))}
        /\ \A i \in 0..header : i \notin KeptLabels

InWindow(t) ==
    /\ t > start_date.hh * Hour + start_date.mm
    /\ t <= end_date.hh * Hour + end_date.mm

\* the rows of df, in order, whose timestamp lies in (start_date, end_date]
Selected(df) == SelectSeq(df, LAMBDA r : InWindow(r.Time))

\* C8: plot_redox and plot_temp plot exactly the rows with
\* start_date < t <= end_date: a row at start_date is left out, a row at
\* end_date is plotted, and both functions apply the same window.
C8_HalfOpenWindow ==
    /\ pc \in {"plot_temp", "done"} =>
          /\ df_redox_plot = Selected(df_redox)
          /\ \A k \in 1..Len(df_redox_plot) :
                df_redox_plot[k].Time # ToDatetime(start_date)
          /\ \A k \in 1..Len(df_redox) :
                (df_redox[k].Time = ToDatetime(end_date)
                    /\ ToDatetime(start_date) < ToDatetime(end_date)) =>
                \E j \in 1..Len(df_redox_plot) : df_redox_plot[j] = df_redox[k]
    /\ pc = "done" =>
          /\ df_temp_plot = Selected(df_temp)
          /\ Index(df_temp_plot) = Index(df_redox_plot)

\* C8 witness: a table with a row at start_date and a row at end_date was
\* plotted by both functions, the first row left out and the second plotted.
C8_Witness ==
    /\ pc = "done"
    /\ \E k \in 1..Len(df_redox) : df_redox[k].Time = ToDatetime(start_date)
    /\ \E k \in 1..Len(df_redox) : df_redox[k].Time = ToDatetime(end_date)
    /\ Len(df_redox_plot) = 1
    /\ Len(df_temp_plot) = 1

\* C9: when the source is no spreadsheet and cannot be parsed as delimited
\* text, nothing is raised at the parse step; header detection then acts on
\* the unbound name dataframe and the call ends in that error, returning nothing.
C9_ParseFailureSwallowed ==
    (~IsSpreadsheet(file_path) /\ ~readable) =>
        /\ pc \in {"read", "header", "error"}
        /\ ~bound
        /\ pc = "error" => err = "UnboundLocalError"
        /\ df_redox = <<>> /\ df_temp = <<>>

\* C9 witness: such a call ended in the error of the unbound name.
C9_Witness ==
    /\ ~IsSpreadsheet(file_path)
    /\ ~readable
    /\ pc = "error"
    /\ err = "UnboundLocalError"

====
